---- MODULE Spec2Model ----
(***************************************************************************)
(* A model of OFFAT's specification-to-test-plan compiler:                 *)
(*   - OpenAPIv3Parser (src/offat/parsers/openapi.py), which normalises a  *)
(*     decoded OpenAPI v3 document into Endpoint Records, and              *)
(*   - TestGenerator (src/offat/tester/generator.py), whose operations     *)
(*     turn the Endpoint Records into Test Descriptors.                    *)
(*                                                                         *)
(* Python objects that the code mutates in place are kept at addresses:    *)
(* parameter lists live in `heap`, schema objects in `objs`, response      *)
(* objects inside `specification`.  An Endpoint Record holds addresses,    *)
(* exactly as the Python dict holds references, so a write through one     *)
(* alias is seen through every other.                                      *)
(*                                                                         *)
(* Text is modelled as a sequence of tokens: "/" , a literal segment, a    *)
(* placeholder "{name}" or a substituted value.  str.replace of a          *)
(* placeholder is the replacement of that token.                           *)
(***************************************************************************)
EXTENDS Integers, Sequences, FiniteSets, TLC

VARIABLES
    specification,  \* the decoded document: servers, paths (BaseParser.specification)
    heap,           \* address -> parameter list (Python list objects)
    objs,           \* object id -> schema object (Python dict objects)
    headers,        \* the caller's headers mapping (one dict object): its key set
    parser,         \* the OpenAPIv3Parser instance last constructed
    nparse,         \* number of constructions so far
    parsed0,        \* View of the Endpoint Records right after the first construction
    parsed,         \* View of the Endpoint Records right after the last construction
    fresh,          \* heap and objs as they were right after the last construction
    call,           \* the last generator call: operation, random draws, headers passed
    tasks,          \* the descriptors the last generator call returned
    ncalls          \* number of generator calls so far

vars == <<specification, heap, objs, headers, parser, nparse, parsed0, parsed,
          fresh, call, tasks, ncalls>>

----------------------------------------------------------------------------
(* Bounds *)

\* generator calls per behaviour
MaxCalls == 2
\* constructions of the normaliser on the same document tree
MaxParses == 2
\* the fuzzer draws one of FuzzMax values
FuzzMax == 2

----------------------------------------------------------------------------
(* Sequence helpers *)

Range(s) == {s[i] : i \in DOMAIN s}

RECURSIVE Flatten(_)
Flatten(ss) == IF ss = <<>> THEN <<>> ELSE Head(ss) \o Flatten(Tail(ss))

----------------------------------------------------------------------------
(* Parameter Records and schema objects *)

\* A Parameter Record (a dict).  An absent key is written "none".
\* `schema` holds the id of a schema object, "{}" for a fresh empty dict.
Param(name, in, type) ==
    [name |-> name, in |-> in, type |-> type, value |-> "none",
     schema |-> "none", status_code |-> "none"]

ParamS(name, in, type, schema) == [Param(name, in, type) EXCEPT !.schema = schema]

\* A parameter written as a reference object, {'$ref': '#/components/parameters/...'}:
\* a dict without name, in, type and schema.
RefParam == Param("none", "none", "none")

\* '{' + str(name) + '}'
Brace(name) ==
    CASE name = "id"      -> "{id}"
      [] name = "version" -> "{version}"
      [] name = "q"       -> "{q}"
      [] name = "n"       -> "{n}"
      [] name = "f"       -> "{f}"
      [] name = "h"       -> "{h}"
      [] name = "application/json" -> "{application/json}"
      [] OTHER            -> "{?}"

Placeholders == {"{id}", "{version}", "{q}", "{n}", "{f}", "{h}", "{application/json}", "{?}"}

\* A property of a schema: the key it is stored under and its dict.
Prop(key, type) == [key |-> key, data |-> Param("none", "none", type)]

\* Schema objects of the documents.  ref is the `$ref` string split at '/'
\* without the leading '#', <<>> when the object has no `$ref`.
Objs0 ==
    [id \in {"User", "Inline", "RefUser", "RefMissing", "RefDeep", "Plain", "RespParams"} |->
        CASE id = "User"    -> [ref |-> <<>>, type |-> "object",
                                properties |-> <<Prop("admin", "boolean"), Prop("role", "string")>>]
          [] id = "Inline"  -> [ref |-> <<>>, type |-> "object",
                                properties |-> <<Prop("owner", "string")>>]
          [] id = "RefUser" -> [ref |-> <<"components", "schemas", "User">>, type |-> "none",
                                properties |-> <<>>]
          [] id = "RefMissing" -> [ref |-> <<"components", "schemas", "Gone">>, type |-> "none",
                                properties |-> <<>>]
          [] id = "RefDeep" -> [ref |-> <<"components", "schemas", "User", "properties">>,
                                type |-> "none", properties |-> <<>>]
          [] id = "Plain"   -> [ref |-> <<>>, type |-> "string", properties |-> <<>>]
          [] OTHER          -> [ref |-> <<>>, type |-> "object",
                                properties |-> <<Prop("token", "string")>>]]

\* components.schemas of every document
ComponentNames == {"User"}

----------------------------------------------------------------------------
(* Addresses of the parameter lists *)

\* The list of path item i (j = 0) or of operation j of path item i, owned by
\* the document (k = 0) or created by the k-th construction.
Addr(k, i, j) == k * 100 + i * 10 + j

NoList == Addr(0, 0, 0)

----------------------------------------------------------------------------
(* The documents *)

\* A server entry after parse_server_url: the url contains 'https://' or not,
\* and the pieces the utility returns for it.  host "" stands for an absent host.
Server(https, host, port, basepath) ==
    [https |-> https, scheme |-> IF https THEN "https" ELSE "http",
     host |-> host, port |-> port, basepath |-> basepath]

SrvExample  == Server(TRUE, "api.example.com", "8443", <<"/", "v1">>)
SrvPlain    == Server(FALSE, "a", "80", <<>>)
SrvSecure   == Server(TRUE, "b", "443", <<>>)
SrvRelative == Server(FALSE, "", "80", <<"/", "v1">>)

ServerLists == {<<SrvExample>>, <<>>, <<SrvPlain, SrvSecure>>, <<SrvRelative>>}

\* A response object: its status code, its `content` entries (media type, the
\* key the entry carries: "schema", "parameters" or "none", and that key's
\* object), its own `$ref` (<<>> when absent) and its `schema` attribute.
Response(status, content, ref) ==
    [status |-> status, content |-> content, ref |-> ref, schema |-> "none"]

Content(mt, key, obj) == [mt |-> mt, key |-> key, obj |-> obj]

\* An operation as written in the document.  declared says whether the
\* operation has a `parameters` key; requestBody is requestBody.content.
Operation(declared, params, body, responses, security) ==
    [declared |-> declared, params |-> params, requestBody |-> body,
     responses |-> responses, security |-> security]

OpShapes == {"bare", "id", "full", "num", "body", "refp", "pref"}

OpShape(s) ==
    CASE s = "bare" -> Operation(FALSE, <<>>, <<>>, <<>>, <<>>)
      [] s = "id"   -> Operation(TRUE, <<Param("id", "path", "integer")>>, <<>>,
                          <<Response("200", <<Content("application/json", "schema", "RefUser")>>, <<>>)>>,
                          <<"bearerAuth">>)
      [] s = "full" -> Operation(TRUE,
                          <<Param("id", "path", "integer"), Param("q", "query", "string")>>,
                          <<Content("application/json", "schema", "RefUser")>>,
                          <<Response("200", <<Content("application/json", "schema", "Inline")>>, <<>>)>>,
                          <<"{}">>)
      [] s = "num"  -> Operation(TRUE, <<Param("n", "query", "integer")>>, <<>>,
                          <<Response("404", <<>>, <<"components", "schemas", "User">>),
                            Response("500", <<>>, <<"components", "schemas", "User", "properties">>)>>,
                          <<"bearerAuth">>)
      [] s = "body" -> Operation(FALSE, <<>>,
                          <<Content("application/json", "schema", "RefDeep")>>,
                          <<Response("200", <<Content("application/json", "parameters", "RespParams")>>, <<>>),
                            Response("204", <<>>, <<>>)>>,
                          <<>>)
      [] s = "pref" -> Operation(TRUE, <<RefParam, Param("q", "query", "string")>>,
                          <<Content("application/json", "schema", "Inline"),
                            Content("application/xml", "schema", "RefUser")>>,
                          <<Response("204", <<>>, <<>>)>>, <<>>)
      [] OTHER      -> Operation(TRUE,
                          <<ParamS("f", "query", "string", "RefUser"), Param("q", "body", "string")>>,
                          <<Content("application/json", "schema", "RefMissing")>>,
                          <<Response("200", <<Content("application/json", "schema", "Plain")>>, <<>>)>>,
                          <<"bearerAuth">>)

\* The keys of a path item with the shape of each operation, in document order.
OpCombos ==
    {<<[key |-> "get", shape |-> s]>> : s \in OpShapes}
    \cup {<<[key |-> "get", shape |-> s1], [key |-> "post", shape |-> s2]>> :
             s1 \in {"bare", "id"}, s2 \in {"id", "full"}}
    \cup {<<[key |-> "get", shape |-> "id"], [key |-> "patch", shape |-> "bare"]>>,
          <<[key |-> "head", shape |-> "bare"], [key |-> "put", shape |-> "full"],
            [key |-> "delete", shape |-> "id"]>>}

\* the operations of the path items that declare path-level parameters
DeclaredCombos ==
    {<<[key |-> "get", shape |-> s]>> : s \in {"bare", "id", "full"}}
    \cup {<<[key |-> "get", shape |-> "id"], [key |-> "post", shape |-> "full"]>>}

PathItem(path, declared, params, combo) ==
    [path |-> path, declared |-> declared, params |-> params, ops |-> combo]

UsersPath == <<"/", "users", "/", "{id}">>
FilesPath == <<"/", "files", "/", "v", "{version}">>
APath     == <<"/", "a">>

PathItems ==
    {PathItem(UsersPath, FALSE, <<>>, c) : c \in OpCombos}
    \cup {PathItem(UsersPath, TRUE, <<Param("id", "path", "integer")>>, c) : c \in DeclaredCombos}
    \cup {PathItem(UsersPath, TRUE,
                   <<Param("h", "header", "string"), Param("id", "path", "string")>>,
                   <<[key |-> "get", shape |-> s]>>) : s \in {"bare", "id"}}
    \cup {PathItem(APath, FALSE, <<>>, <<[key |-> "get", shape |-> s]>>) : s \in {"bare", "num", "refp"}}
    \cup {PathItem(FilesPath, TRUE, <<Param("version", "path", "integer")>>,
                   <<[key |-> "get", shape |-> "bare"]>>),
          PathItem(APath, TRUE, <<RefParam>>, <<[key |-> "get", shape |-> "bare"]>>)}

\* The documents: one path item under the example server, two path items,
\* and one small path item under each other server list.
Documents ==
    {[servers |-> <<SrvExample>>, items |-> <<it>>] : it \in PathItems}
    \cup {[servers |-> <<SrvExample>>,
           items |-> <<PathItem(UsersPath, FALSE, <<>>, <<[key |-> "get", shape |-> "full"]>>),
                       PathItem(APath, FALSE, <<>>, <<[key |-> "get", shape |-> "bare"]>>)>>]}
    \cup {[servers |-> sv,
           items |-> <<PathItem(UsersPath, FALSE, <<>>, <<[key |-> "get", shape |-> "id"]>>)>>] :
             sv \in ServerLists}

MaxItems == 2
MaxOps == 3

\* The document tree: every declared parameter list is an object of its own.
DocTree(d) ==
    [servers |-> d.servers,
     paths |-> [i \in DOMAIN d.items |->
        [path |-> d.items[i].path,
         parameters |-> IF d.items[i].declared THEN Addr(0, i, 0) ELSE NoList,
         ops |-> [j \in DOMAIN d.items[i].ops |->
            LET o == OpShape(d.items[i].ops[j].shape) IN
            [key |-> d.items[i].ops[j].key,
             parameters |-> IF o.declared THEN Addr(0, i, j) ELSE NoList,
             requestBody |-> o.requestBody,
             responses |-> o.responses,
             security |-> o.security]]]]]

Addrs == {Addr(k, i, j) : k \in 0..MaxParses, i \in 1..MaxItems, j \in 0..MaxOps}

DocHeap(d) ==
    [a \in Addrs |->
        IF \E i \in DOMAIN d.items : a = Addr(0, i, 0) /\ d.items[i].declared
        THEN d.items[CHOOSE i \in DOMAIN d.items : a = Addr(0, i, 0)].params
        ELSE IF \E i \in DOMAIN d.items : \E j \in DOMAIN d.items[i].ops :
                    a = Addr(0, i, j) /\ OpShape(d.items[i].ops[j].shape).declared
        THEN LET i == CHOOSE i \in DOMAIN d.items : \E j \in DOMAIN d.items[i].ops : a = Addr(0, i, j)
                 j == CHOOSE j \in DOMAIN d.items[i].ops : a = Addr(0, i, j)
             IN OpShape(d.items[i].ops[j].shape).params
        ELSE <<>>]

----------------------------------------------------------------------------
(* OpenAPIv3Parser *)

\* 'https' if some server url contains 'https://', else 'http'
GetScheme(spec) ==
    IF \E i \in DOMAIN spec.servers : spec.servers[i].https THEN "https" ELSE "http"

\* a check that never finds the servers missing
ServersNeverMissing(spec) == FALSE

\* `if not servers` on specification.get('servers', []): the key is absent or
\* its list is empty
ServersMissing(spec) == spec.servers = <<>>

\* the dicts _populate_hosts appends, one per server, in order
PopulateHosts(spec) ==
    [i \in DOMAIN spec.servers |->
        [scheme |-> spec.servers[i].scheme, host |-> spec.servers[i].host,
         port |-> spec.servers[i].port, basepath |-> spec.servers[i].basepath]]

\* `not (self.hosts and self.hosts[0])`: a list is falsy when empty, a dict
\* when it has no key.
HostInvalid(hosts) == hosts = <<>> \/ DOMAIN hosts[1] = {}

\* dict.get(key, {}) on a node of the document tree.  The `$ref`s of the
\* documents point into components; "{}" is a fresh empty dict.
DocChild(node, key) ==
    CASE node = "#" /\ key = "components"              -> "#/components"
      [] node = "#/components" /\ key = "schemas"      -> "#/components/schemas"
      [] node = "#/components/schemas" /\ key \in ComponentNames -> key
      [] OTHER                                         -> "{}"

RECURSIVE Descend(_, _)
Descend(node, path) ==
    IF path = <<>> THEN node ELSE Descend(DocChild(node, Head(path)), Tail(path))

\* _fetch_schema_from_spec on the split `$ref`
FetchSchemaFromSpec(ref) ==
    IF Len(ref) > 3 THEN "{}" ELSE Descend("#", ref)

\* _get_param_definition_schema on param.get('schema')
GetParamDefinitionSchema(o, param_schema) ==
    IF param_schema \in DOMAIN o /\ o[param_schema].ref # <<>>
    THEN FetchSchemaFromSpec(o[param_schema].ref)
    ELSE param_schema

\* the loop over the content types of one response: the last entry that
\* carries `parameters` or `schema` decides the `schema` attribute
RECURSIVE ContentSchema(_, _, _)
ContentSchema(o, content, schema) ==
    IF content = <<>> THEN schema
    ELSE ContentSchema(o, Tail(content),
            CASE Head(content).key = "parameters" -> Head(content).obj
              [] Head(content).key = "schema" -> GetParamDefinitionSchema(o, Head(content).obj)
              [] OTHER -> schema)

\* _get_response_definition_schema: the responses dict after the call (the
\* dict is updated in place and returned)
GetResponseDefinitionSchema(o, responses) ==
    [n \in DOMAIN responses |->
        LET r == responses[n] IN
        IF r.content # <<>>
        THEN [r EXCEPT !.schema = ContentSchema(o, r.content, r.schema)]
        ELSE IF r.ref # <<>>
             THEN [r EXCEPT !.schema = FetchSchemaFromSpec(r.ref)]
             ELSE r]

\* a filter that lets patch through as well
HttpMethodsWithPatch == {"get", "put", "post", "delete", "options", "patch"}

HttpMethodsParsed == {"get", "put", "post", "delete", "options"}

\* body_params of one operation: one record per media type of requestBody.content
BodyParams(o, op) ==
    [n \in DOMAIN op.requestBody |->
        ParamS(op.requestBody[n].mt, "body", "none",
               GetParamDefinitionSchema(o, op.requestBody[n].obj))]

\* The (path item, operation) pairs _get_request_response_params keeps, in
\* document order.
Included(spec) ==
    Flatten([i \in DOMAIN spec.paths |->
        LET ops == spec.paths[i].ops
            idx == [j \in DOMAIN ops |-> <<i, j>>]
            Keep(ij) == ops[ij[2]].key \in HttpMethodsParsed
        IN SelectSeq(idx, Keep)])

\* the list object an operation's `parameters` evaluates to: the document's
\* list, or the default [] of .get, a new list at every evaluation
RequestList(spec, k, i, j) ==
    IF spec.paths[i].ops[j].parameters # NoList
    THEN spec.paths[i].ops[j].parameters ELSE Addr(k, i, j)

PathList(spec, k, i) ==
    IF spec.paths[i].parameters # NoList THEN spec.paths[i].parameters ELSE Addr(k, i, 0)

\* The Endpoint Records of the k-th construction.  request_params and
\* path_params are the addresses of the lists, response_params the place of
\* the responses dict in the document.
GetRequestResponseParams(spec, o, k) ==
    LET inc == Included(spec) IN
    [n \in DOMAIN inc |->
        LET i == inc[n][1]
            j == inc[n][2]
            op == spec.paths[i].ops[j]
        IN [http_method |-> op.key,
            path |-> spec.paths[i].path,
            request_params |-> RequestList(spec, k, i, j),
            response_params |-> <<i, j>>,
            path_params |-> PathList(spec, k, i),
            body_params |-> BodyParams(o, op),
            security |-> op.security]]

\* `request_parameters += body_params`: every kept operation's list grows in place
HeapAfterParse(spec, h, o, k) ==
    [a \in DOMAIN h |->
        IF \E n \in DOMAIN Included(spec) :
              a = RequestList(spec, k, Included(spec)[n][1], Included(spec)[n][2])
        THEN LET ij == Included(spec)[CHOOSE n \in DOMAIN Included(spec) :
                            a = RequestList(spec, k, Included(spec)[n][1], Included(spec)[n][2])]
             IN h[a] \o BodyParams(o, spec.paths[ij[1]].ops[ij[2]])
        ELSE h[a]]

\* the document after the responses of every kept operation were resolved
SpecAfterParse(spec, o) ==
    [spec EXCEPT !.paths =
        [i \in DOMAIN spec.paths |->
            [spec.paths[i] EXCEPT !.ops =
                [j \in DOMAIN spec.paths[i].ops |->
                    IF spec.paths[i].ops[j].key \in HttpMethodsParsed
                    THEN [spec.paths[i].ops[j] EXCEPT
                            !.responses = GetResponseDefinitionSchema(o, @)]
                    ELSE spec.paths[i].ops[j]]]]]

----------------------------------------------------------------------------
(* Structural value of the Endpoint Records *)

\* the dict an object id stands for
Deref(o, id) ==
    IF id \in DOMAIN o
    THEN [at |-> "dict", ref |-> o[id].ref, type |-> o[id].type, properties |-> o[id].properties]
    ELSE [at |-> id, ref |-> <<>>, type |-> "none", properties |-> <<>>]

ViewParam(o, p) == [p EXCEPT !.schema = Deref(o, p.schema)]

ViewList(o, l) == [n \in DOMAIN l |-> ViewParam(o, l[n])]

ViewRecord(spec, h, o, r) ==
    [http_method |-> r.http_method,
     path |-> r.path,
     request_params |-> ViewList(o, h[r.request_params]),
     path_params |-> ViewList(o, h[r.path_params]),
     body_params |-> ViewList(o, r.body_params),
     response_params |->
        LET rs == spec.paths[r.response_params[1]].ops[r.response_params[2]].responses
        IN [n \in DOMAIN rs |-> [status |-> rs[n].status, schema |-> Deref(o, rs[n].schema)]],
     security |-> r.security]

View(spec, h, o, rs) == [n \in DOMAIN rs |-> ViewRecord(spec, h, o, rs[n])]

----------------------------------------------------------------------------
(* Utilities of the generator: fuzzer.fill_params, utils.get_unique_params, *)
(* utils.join_uri_path                                                      *)

\* the string form of the d-th value the fuzzer can draw
FuzzValue(d) ==
    CASE d = 1 -> "fz1" [] d = 2 -> "fz2" [] d = 3 -> "fz3" [] OTHER -> "fz4"

\* fill_params: a new sequence, every record with a drawn `value`
FillParams(params, d) ==
    [n \in DOMAIN params |-> [params[n] EXCEPT !.value = FuzzValue(d)]]

\* get_unique_params(A, B): A, then the entries of B whose name is not in A
GetUniqueParams(A, B) ==
    LET Fresh(b) == \A n \in DOMAIN A : A[n].name # b.name
    IN A \o SelectSeq(B, Fresh)

\* duplicate slashes collapse
RECURSIVE Collapse(_)
Collapse(t) ==
    IF Len(t) < 2 THEN t
    ELSE IF t[1] = "/" /\ t[2] = "/" THEN Collapse(Tail(t))
    ELSE <<t[1]>> \o Collapse(Tail(t))

\* join_uri_path on path parts: one "/" between consecutive parts
JoinUriPath(a, b) ==
    IF a = <<>> THEN Collapse(b)
    ELSE IF b = <<>> THEN Collapse(a)
    ELSE Collapse(a \o <<"/">> \o b)

\* join_uri_path(base_url, ...): the scheme's "://" is kept, the path joined
JoinUrl(base_url, path) == [base |-> base_url, path |-> Collapse(path)]

\* endpoint_path.replace('{' + str(name) + '}', str(value))
Replace(path, name, value) ==
    [n \in DOMAIN path |-> IF path[n] = Brace(name) THEN value ELSE path[n]]

\* a loop that stops after the first parameter
ReplaceFirstOnly(path, params) ==
    IF params = <<>> THEN path ELSE Replace(path, Head(params).name, Head(params).value)

\* the loop that replaces the placeholder of every parameter by str(value)
RECURSIVE ReplaceAll(_, _)
ReplaceAll(path, params) ==
    IF params = <<>> THEN path
    ELSE ReplaceAll(Replace(path, Head(params).name, Head(params).value), Tail(params))

\* '/{' in path
HasParamInPath(path) ==
    \E n \in 1..(Len(path) - 1) : path[n] = "/" /\ path[n + 1] \in Placeholders

InBody(x) == x.in = "body"
InQuery(x) == x.in = "query"
InPath(x) == x.in = "path"

Upper(m) ==
    CASE m = "get" -> "GET" [] m = "put" -> "PUT" [] m = "post" -> "POST"
      [] m = "delete" -> "DELETE" [] m = "options" -> "OPTIONS"
      [] m = "patch" -> "PATCH" [] OTHER -> "?"

Lower(m) ==
    CASE m = "GET" -> "get" [] m = "PUT" -> "put" [] m = "POST" -> "post"
      [] m = "DELETE" -> "delete" [] m = "OPTIONS" -> "options"
      [] m = "PATCH" -> "patch" [] OTHER -> "?"

----------------------------------------------------------------------------
(* Test Descriptors *)

\* A descriptor (a dict).  keys is the set of its keys; a key that is absent
\* has the filler value of its type.  malicious_payload is a string (s) or a
\* list (l).  kwargs.headers is "caller" when kwargs carries the caller's
\* headers mapping (the same object), "none" when kwargs has no headers.
\* record is not a key of the dict: it is the index of the Endpoint Record
\* the descriptor was made from (for a descriptor made from a group of
\* records, the first record of the group).  shared is not a key either: it
\* is the set of the mutable objects the dict refers to that were not made
\* for this dict alone, the kwargs dict of the call (KwargsObject) or the
\* parameter lists of a group (GroupLists).  A deep copy refers to none, and
\* its kwargs then holds a copy of the caller's mapping.
FuzzedKeys == {"url", "endpoint", "method", "body_params", "query_params", "path_params", "security"}

\* the literal dict without its vuln_details entry
CommonKeysNoDetails ==
    {"test_name", "url", "endpoint", "method", "malicious_payload", "args", "kwargs",
     "body_params", "query_params", "path_params", "response_filter"}

CommonKeys == {"test_name", "url", "endpoint", "method", "malicious_payload", "args", "kwargs",
               "vuln_details", "body_params", "query_params", "path_params", "response_filter"}

Scalar(s) == [s |-> s, l |-> <<>>]
Listed(l) == [s |-> "none", l |-> l]

BlankTask ==
    [keys |-> {}, test_name |-> "none", url |-> [base |-> "none", path |-> <<>>],
     endpoint |-> <<>>, method |-> "none", body_params |-> <<>>, query_params |-> <<>>,
     path_params |-> <<>>, security |-> <<>>, malicious_payload |-> Scalar("none"),
     kwargs |-> "none", success_codes |-> <<>>, response_filter |-> "none",
     response_match_regex |-> "none", record |-> 0, shared |-> {}]

\* the dict the call received as **kwargs
KwargsObject == <<"kwargs", 0>>

\* the body_params, query_params and path_params lists of endpoints_index[endpoint],
\* for the group whose first record is g
GroupLists(g) == <<"endpoints_index", g>>

----------------------------------------------------------------------------
(* TestGenerator *)

\* The random draws of one call: for the n-th Endpoint Record, the value
\* fill_params draws for its request_params (1), for its path_params (2) and
\* the further value the operation draws (3).  Nothing is drawn for an empty
\* list, nor a further value by an operation that draws none (extra FALSE).
\* grow: the operation extends path_params by request parameters before it
\* fills them.
RECURSIVE DrawsUpTo(_, _, _, _, _)
DrawsUpTo(n, p, h, extra, grow) ==
    IF n = 0 THEN {<<>>}
    ELSE LET r == p.request_response_params[n]
             For(l) == IF l = <<>> THEN {1} ELSE 1..FuzzMax
             d1 == For(h[r.request_params])
             d2 == For(IF grow THEN h[r.path_params] \o h[r.request_params] ELSE h[r.path_params])
             d3 == IF extra THEN 1..FuzzMax ELSE {1}
         IN {Append(rnd, d) : rnd \in DrawsUpTo(n - 1, p, h, extra, grow), d \in d1 \X d2 \X d3}

Draws(p, h, extra, grow) == DrawsUpTo(Len(p.request_response_params), p, h, extra, grow)

\* __fuzz_request_params for one Endpoint Record
FuzzOne(p, h, r, d, n) ==
    LET request_params == FillParams(h[r.request_params], d[1])
        request_body_params == SelectSeq(request_params, InBody)
        request_query_params == SelectSeq(request_params, InQuery)
        path_params_in_body == SelectSeq(request_params, InPath)
        path_params == GetUniqueParams(FillParams(h[r.path_params], d[2]), path_params_in_body)
        endpoint_path == ReplaceAll(r.path, path_params)
    IN [BlankTask EXCEPT
            !.keys = FuzzedKeys,
            !.url = JoinUrl(p.base_url, JoinUriPath(p.api_base_path, endpoint_path)),
            !.endpoint = JoinUriPath(p.api_base_path, endpoint_path),
            !.method = Upper(r.http_method),
            !.body_params = request_body_params,
            !.query_params = request_query_params,
            !.path_params = path_params,
            !.security = r.security,
            !.record = n]

\* __fuzz_request_params
FuzzRequestParams(p, h, rnd) ==
    [n \in DOMAIN p.request_response_params |->
        FuzzOne(p, h, p.request_response_params[n], rnd[n], n)]

HttpMethods == <<"get", "post", "put", "patch", "delete", "options">>

\* check_unsupported_http_methods.  The groups are taken in the order of their
\* first endpoint; the restricted methods of a group, a Python set, are listed
\* in the order of HttpMethods.
CheckUnsupportedHttpMethods(p, h, rnd, kw) ==
    LET fuzzed == FuzzRequestParams(p, h, rnd)
        idx == [n \in DOMAIN fuzzed |-> n]
        First(n) == \A m \in 1..(n - 1) : fuzzed[m].endpoint # fuzzed[n].endpoint
        firsts == SelectSeq(idx, First)
        GroupTasks(g) ==
            LET Member(n) == fuzzed[n].endpoint = fuzzed[g].endpoint
                members == SelectSeq(idx, Member)
                methods_allowed == {Lower(fuzzed[members[m]].method) : m \in DOMAIN members}
                Restricted(m) == m \notin methods_allowed
                restricted_methods == SelectSeq(HttpMethods, Restricted)
            IN [m \in DOMAIN restricted_methods |->
                  [BlankTask EXCEPT
                     !.keys = CommonKeys \cup {"success_codes"},
                     !.test_name = "UnSupported HTTP Method Check",
                     !.url = JoinUrl(p.base_url, fuzzed[g].endpoint),
                     !.endpoint = fuzzed[g].endpoint,
                     !.method = Upper(restricted_methods[m]),
                     !.malicious_payload = Listed(<<>>),
                     !.kwargs = kw,
                     !.body_params = Flatten([k \in DOMAIN members |-> fuzzed[members[k]].body_params]),
                     !.query_params = Flatten([k \in DOMAIN members |-> fuzzed[members[k]].query_params]),
                     !.path_params = Flatten([k \in DOMAIN members |-> fuzzed[members[k]].path_params]),
                     !.success_codes = <<200, 201, 301, 302>>,
                     !.response_filter = "STATUS_CODE_FILTER",
                     !.record = g,
                     !.shared = {KwargsObject, GroupLists(g)}]]
    IN Flatten([g \in DOMAIN firsts |-> GroupTasks(firsts[g])])

\* an injection that leaves a value alone once a payload was put there
InjectPayloadOnce(request_params, payload) ==
    [n \in DOMAIN request_params |->
        IF request_params[n].type = "string"
           /\ request_params[n].value \in {FuzzValue(d) : d \in 1..4}
        THEN [request_params[n] EXCEPT !.value = payload]
        ELSE request_params[n]]

\* __inject_payload_in_params: a deep copy with the payload as the value of
\* every record whose `type` is 'string'
InjectPayloadInParams(request_params, payload) ==
    [n \in DOMAIN request_params |->
        IF request_params[n].type = "string"
        THEN [request_params[n] EXCEPT !.value = payload]
        ELSE request_params[n]]

BasicSqliPayloads ==
    <<"' OR 1=1 ;--",
      "' UNION SELECT 1,2,3 -- -",
      "' OR '1'='1--",
      "' AND (SELECT * FROM (SELECT(SLEEP(5)))abc)",
      "' AND SLEEP(5) --">>

\* sqli_fuzz_params_test: the payload loop.  list is fuzzed_request_list, whose
\* dicts the loop updates in place and appends as deep copies.
RECURSIVE SqliLoop(_, _, _, _)
SqliLoop(payloads, list, kw, acc) ==
    IF payloads = <<>> THEN acc
    ELSE LET updated ==
               [n \in DOMAIN list |->
                  [list[n] EXCEPT
                     !.keys = @ \cup {"test_name", "args", "kwargs", "malicious_payload",
                                      "vuln_details", "success_codes", "response_filter"},
                     !.test_name = "SQLi Test",
                     !.body_params = InjectPayloadInParams(@, Head(payloads)),
                     !.query_params = InjectPayloadInParams(@, Head(payloads)),
                     !.kwargs = kw,
                     !.malicious_payload = Scalar(Head(payloads)),
                     !.success_codes = <<500>>,
                     !.response_filter = "STATUS_CODE_FILTER",
                     !.shared = {}]]
         IN SqliLoop(Tail(payloads), updated, kw, acc \o updated)

SqliFuzzParamsTest(p, h, rnd, kw) ==
    SqliLoop(BasicSqliPayloads, FuzzRequestParams(p, h, rnd), kw, <<>>)

\* every Endpoint Record (by index), whatever its path
AllEndpoints(p) == [n \in DOMAIN p.request_response_params |-> n]

\* the Endpoint Records (by index) whose path contains '/{'
EndpointsWithParamInPath(p) ==
    LET rs == p.request_response_params
        Has(n) == HasParamInPath(rs[n].path)
    IN SelectSeq([n \in DOMAIN rs |-> n], Has)

\* sqli_in_uri_path_fuzz_test: one turn of the inner loop, for payload and
\* Endpoint Record n.  `path_params += path_params_in_body` extends the
\* record's list in place.
SqliPathStep(p, h, rnd, kw, payload, n) ==
    LET r == p.request_response_params[n]
        request_params == FillParams(h[r.request_params], rnd[n][1])
        request_body_params == SelectSeq(request_params, InBody)
        path_params_in_body == SelectSeq(request_params, InPath)
        h2 == [h EXCEPT ![r.path_params] = @ \o path_params_in_body]
        path_params == FillParams(h2[r.path_params], rnd[n][2])
        endpoint_path ==
            ReplaceAll(r.path, [k \in DOMAIN path_params |-> [path_params[k] EXCEPT !.value = payload]])
        request_query_params == SelectSeq(request_params, InQuery)
    IN [heap |-> h2,
        task |-> [BlankTask EXCEPT
            !.keys = CommonKeys \cup {"success_codes"},
            !.test_name = "SQLi Test in URI Path with Fuzzed Params",
            !.url = JoinUrl(p.base_url, JoinUriPath(p.api_base_path, endpoint_path)),
            !.endpoint = JoinUriPath(p.api_base_path, endpoint_path),
            !.method = Upper(r.http_method),
            !.body_params = request_body_params,
            !.query_params = request_query_params,
            !.path_params = path_params,
            !.malicious_payload = Scalar(payload),
            !.kwargs = kw,
            !.success_codes = <<500>>,
            !.response_filter = "STATUS_CODE_FILTER",
            !.record = n,
            !.shared = {KwargsObject}]]

\* the two loops, payloads outside and Endpoint Records inside, over work, the
\* sequence of their (payload, record) turns
RECURSIVE SqliPathLoop(_, _, _, _, _, _)
SqliPathLoop(work, p, h, rnd, kw, acc) ==
    IF work = <<>> THEN [heap |-> h, tasks |-> acc]
    ELSE LET step == SqliPathStep(p, h, rnd, kw, Head(work)[1], Head(work)[2])
         IN SqliPathLoop(Tail(work), p, step.heap, rnd, kw, Append(acc, step.task))

SqliInUriPathFuzzTest(p, h, rnd, kw) ==
    LET eps == EndpointsWithParamInPath(p)
        work == Flatten([i \in DOMAIN BasicSqliPayloads |->
                    [e \in DOMAIN eps |-> <<BasicSqliPayloads[i], eps[e]>>]])
    IN SqliPathLoop(work, p, h, rnd, kw, <<>>)

\* the body shared by bola_fuzz_path_test and missing_auth_fuzz_test for
\* Endpoint Record n
PathTask(p, h, rnd, kw, n, test_name) ==
    LET r == p.request_response_params[n]
        request_params == FillParams(h[r.request_params], rnd[n][1])
        request_body_params == SelectSeq(request_params, InBody)
        path_params_in_body == SelectSeq(request_params, InPath)
        path_params == GetUniqueParams(path_params_in_body, FillParams(h[r.path_params], rnd[n][2]))
        endpoint_path == ReplaceAll(r.path, path_params)
        request_query_params == SelectSeq(request_params, InQuery)
    IN [BlankTask EXCEPT
            !.keys = CommonKeys \cup {"success_codes"},
            !.test_name = test_name,
            !.url = JoinUrl(p.base_url, JoinUriPath(p.api_base_path, endpoint_path)),
            !.endpoint = JoinUriPath(p.api_base_path, endpoint_path),
            !.method = Upper(r.http_method),
            !.body_params = request_body_params,
            !.query_params = request_query_params,
            !.path_params = path_params,
            !.kwargs = kw,
            !.success_codes = <<200, 201, 301>>,
            !.response_filter = "STATUS_CODE_FILTER",
            !.record = n,
            !.shared = {KwargsObject}]

\* bola_fuzz_path_test
BolaFuzzPathTest(p, h, rnd, kw) ==
    LET eps == EndpointsWithParamInPath(p)
    IN [e \in DOMAIN eps |->
          LET t == PathTask(p, h, rnd, kw, eps[e], "BOLA Path Test with Fuzzed Params")
          IN [t EXCEPT !.malicious_payload = Listed(t.path_params)]]

\* bola_fuzz_trailing_slash_path_test
BolaFuzzTrailingSlashPathTest(p, h, rnd, kw) ==
    [n \in DOMAIN p.request_response_params |->
        LET f == FuzzOne(p, h, p.request_response_params[n], rnd[n], n)
            malicious_payload == FuzzValue(rnd[n][3])
            path == f.url.path
            EndsWithSlash == path # <<>> /\ path[Len(path)] = "/"
        IN [f EXCEPT
              !.keys = CommonKeys \cup {"success_codes"},
              !.test_name = "BOLA Path Trailing Slash Test",
              !.url = [f.url EXCEPT !.path =
                          IF EndsWithSlash THEN Append(path, malicious_payload)
                          ELSE path \o <<"/", malicious_payload>>],
              !.security = <<>>,
              !.malicious_payload = Scalar(malicious_payload),
              !.kwargs = kw,
              !.success_codes = <<200, 201, 301>>,
              !.response_filter = "STATUS_CODE_FILTER",
              !.shared = {KwargsObject}]]

\* _inject_response_params: the turns of its two loops for the responses rs,
\* as (status code, schema object, property index)
ResponseProps(o, rs) ==
    Flatten([n \in DOMAIN rs |->
        IF rs[n].schema \in DOMAIN o
        THEN [k \in DOMAIN o[rs[n].schema].properties |-> <<rs[n].status, rs[n].schema, k>>]
        ELSE <<>>])

\* one turn: name, in and status_code are written into the property's dict,
\* and a deep copy of the dict is appended
RECURSIVE InjectLoop(_, _, _)
InjectLoop(work, o, params) ==
    IF work = <<>> THEN [objs |-> o, params |-> params]
    ELSE LET status_code == Head(work)[1]
             id == Head(work)[2]
             k == Head(work)[3]
             param_data == [o[id].properties[k].data EXCEPT
                               !.name = o[id].properties[k].key,
                               !.in = "body",
                               !.status_code = status_code]
             o2 == [o EXCEPT ![id].properties[k].data = param_data]
         IN InjectLoop(Tail(work), o2, Append(params, param_data))

\* a call that finds no property in the responses
InjectNoResponseParams(o, rs, d) == [objs |-> o, params |-> <<>>]

InjectResponseParams(o, rs, d) ==
    LET done == InjectLoop(ResponseProps(o, rs), o, <<>>)
    IN [objs |-> done.objs, params |-> FillParams(done.params, d)]

\* bopla_fuzz_test: the loop over the Endpoint Records from the n-th on
RECURSIVE BoplaLoop(_, _, _, _, _, _, _, _)
BoplaLoop(n, spec, p, h, o, rnd, kw, acc) ==
    IF n > Len(p.request_response_params) THEN [objs |-> o, tasks |-> acc]
    ELSE LET r == p.request_response_params[n]
             request_params == FillParams(h[r.request_params], rnd[n][1])
             request_body_params == SelectSeq(request_params, InBody)
             request_query_params == SelectSeq(request_params, InQuery)
             path_params_in_body == SelectSeq(request_params, InPath)
             path_params == GetUniqueParams(path_params_in_body,
                                            FillParams(h[r.path_params], rnd[n][2]))
             endpoint_path == ReplaceAll(r.path, path_params)
             response_body_params ==
                 InjectResponseParams(o,
                     spec.paths[r.response_params[1]].ops[r.response_params[2]].responses,
                     rnd[n][3])
         IN IF request_body_params = <<>> /\ request_query_params = <<>>
            THEN BoplaLoop(n + 1, spec, p, h, o, rnd, kw, acc)
            ELSE BoplaLoop(n + 1, spec, p, h, response_body_params.objs, rnd, kw,
                   Append(acc,
                     [BlankTask EXCEPT
                        !.keys = CommonKeys \cup {"success_codes"},
                        !.test_name = "BOPLA Test",
                        !.url = JoinUrl(p.base_url, JoinUriPath(p.api_base_path, endpoint_path)),
                        !.endpoint = JoinUriPath(p.api_base_path, endpoint_path),
                        !.method = Upper(r.http_method),
                        !.body_params = request_body_params \o response_body_params.params,
                        !.query_params = request_query_params,
                        !.path_params = path_params,
                        !.malicious_payload = Listed(response_body_params.params),
                        !.kwargs = kw,
                        !.success_codes = <<200, 201, 301>>,
                        !.response_filter = "STATUS_CODE_FILTER",
                        !.record = n,
                        !.shared = {KwargsObject}]))

BoplaFuzzTest(spec, p, h, o, rnd, kw) == BoplaLoop(1, spec, p, h, o, rnd, kw, <<>>)

\* __generate_injection_fuzz_params_test: the payload loop.  An endpoint
\* without body and query parameters is passed over; the others are updated
\* in place and appended as deep copies.
RECURSIVE InjectionLoop(_, _, _, _)
InjectionLoop(payloads_data, list, test_name, acc) ==
    IF payloads_data = <<>> THEN acc
    ELSE LET payload == Head(payloads_data).request_payload
             Fuzzable(t) == ~(t.body_params = <<>> /\ t.query_params = <<>>)
             updated ==
               [n \in DOMAIN list |->
                  IF ~Fuzzable(list[n]) THEN list[n]
                  ELSE [list[n] EXCEPT
                     !.keys = @ \cup {"test_name", "args", "kwargs", "malicious_payload",
                                      "vuln_details", "response_filter", "response_match_regex"},
                     !.test_name = test_name,
                     !.body_params = InjectPayloadInParams(@, payload),
                     !.query_params = InjectPayloadInParams(@, payload),
                     !.kwargs = "none",
                     !.malicious_payload = Scalar(payload),
                     !.response_filter = "BODY_REGEX_FILTER",
                     !.response_match_regex = Head(payloads_data).response_match_regex,
                     !.shared = {}]]
         IN InjectionLoop(Tail(payloads_data), updated, test_name,
                          acc \o SelectSeq(updated, Fuzzable))

GenerateInjectionFuzzParamsTest(p, h, rnd, test_name, payloads_data) ==
    InjectionLoop(payloads_data, FuzzRequestParams(p, h, rnd), test_name, <<>>)

Payload(request_payload, response_match_regex) ==
    [request_payload |-> request_payload, response_match_regex |-> response_match_regex]

OsCommandPayloads ==
    <<Payload("cat /etc/passwd", "root:.*"),
      Payload("cat /etc/shadow", "root:.*"),
      Payload("ls -la", "total\\s\\d+")>>

XssPayloads ==
    <<Payload("<script>confirm(1)</script>", "<script[^>]*>.*<\\/script>"),
      Payload("<script>alert(1)</script>", "<script[^>]*>.*<\\/script>"),
      Payload("<img src=x onerror='javascript:confirm(1),>", "<img[^>]*>")>>

SstiPayloads ==
    <<Payload("${7777+99999}", "107776"),
      Payload("{{7*'7'}}", "49"),
      Payload("{{7*'7'}}", "7777777"),
      Payload("{{ '<script>confirm(1337)</script>' }}", "<script>confirm(1337)</script>"),
      Payload("{{ '<script>confirm(1337)</script>' | safe }}", "<script>confirm(1337)</script>"),
      Payload("{{'owasp offat'.toUpperCase()}}", "OWASP OFFAT"),
      Payload("{{'owasp offat' | upper }}", "OWASP OFFAT"),
      Payload("<%= system('cat /etc/passwd') %>", "root:.*"),
      Payload("*{7*7}", "49")>>

OsCommandInjectionFuzzParamsTest(p, h, rnd) ==
    GenerateInjectionFuzzParamsTest(p, h, rnd, "OS Command Injection Test", OsCommandPayloads)

XssHtmlInjectionFuzzParamsTest(p, h, rnd) ==
    GenerateInjectionFuzzParamsTest(p, h, rnd, "XSS/HTML Injection Test", XssPayloads)

SstiFuzzParamsTest(p, h, rnd) ==
    GenerateInjectionFuzzParamsTest(p, h, rnd, "SSTI Test", SstiPayloads)

AuthHeaders == {"Authorization", "X-Api-Key"}

\* only the Authorization key is popped
HeadersAfterOnePop(hd, kw) == IF kw = "caller" THEN hd \ {"Authorization"} ELSE hd

\* kwargs.get('headers', {}).pop(...): the mapping kwargs carries loses the
\* two keys; without headers in kwargs the default {} loses them
HeadersAfterPop(hd, kw) == IF kw = "caller" THEN hd \ AuthHeaders ELSE hd

\* a filter that keeps every Endpoint Record with a non-empty security
EndpointsWithSomeSecurity(p) ==
    LET rs == p.request_response_params
        Has(n) == rs[n].security # <<>>
    IN SelectSeq([n \in DOMAIN rs |-> n], Has)

\* the Endpoint Records (by index) that document security
EndpointsWithSecurity(p) ==
    LET rs == p.request_response_params
        Has(n) == rs[n].security # <<>> /\ rs[n].security # <<"{}">>
    IN SelectSeq([n \in DOMAIN rs |-> n], Has)

\* missing_auth_fuzz_test
MissingAuthFuzzTest(p, h, rnd, kw) ==
    LET eps == EndpointsWithSecurity(p)
    IN [e \in DOMAIN eps |->
          [PathTask(p, h, rnd, kw, eps[e], "Missing Authentication Test with Fuzzed Params")
             EXCEPT !.malicious_payload = Scalar("Security Payload Missing")]]

----------------------------------------------------------------------------
(* The state machine *)

NoParser ==
    [status |-> "none", http_scheme |-> "none", hosts |-> <<>>, host |-> "none",
     api_base_path |-> <<>>, base_url |-> "none", request_response_params |-> <<>>]

NoCall == [op |-> "none", rnd |-> <<>>, kw |-> "none"]

CallerHeaders == {"Authorization", "X-Api-Key", "Accept"}

Init ==
    \E d \in Documents :
        /\ specification = DocTree(d)
        /\ heap = DocHeap(d)
        /\ objs = Objs0
        /\ headers = CallerHeaders
        /\ parser = NoParser
        /\ nparse = 0
        /\ parsed0 = <<>>
        /\ parsed = <<>>
        /\ fresh = [heap |-> DocHeap(d), objs |-> Objs0]
        /\ call = NoCall
        /\ tasks = <<>>
        /\ ncalls = 0

\* OpenAPIv3Parser.__init__ on the document tree
Construct ==
    /\ nparse < MaxParses
    /\ nparse' = nparse + 1
    /\ call' = NoCall
    /\ tasks' = <<>>
    /\ UNCHANGED <<objs, headers, ncalls>>
    /\ LET hosts == PopulateHosts(specification) IN
       IF ServersMissing(specification)
       THEN /\ parser' = [NoParser EXCEPT !.status = "InvalidOpenAPIv3File"]
            /\ UNCHANGED <<specification, heap, parsed0, parsed, fresh>>
       ELSE IF HostInvalid(hosts)
       THEN /\ parser' = [NoParser EXCEPT !.status = "ValueError"]
            /\ UNCHANGED <<specification, heap, parsed0, parsed, fresh>>
       ELSE /\ parser' =
                [status |-> "ok",
                 http_scheme |-> hosts[1].scheme,
                 hosts |-> hosts,
                 host |-> [host |-> hosts[1].host, port |-> hosts[1].port],
                 api_base_path |-> hosts[1].basepath,
                 base_url |-> [scheme |-> hosts[1].scheme, host |-> hosts[1].host,
                               port |-> hosts[1].port],
                 request_response_params |->
                     GetRequestResponseParams(specification, objs, nparse + 1)]
            /\ heap' = HeapAfterParse(specification, heap, objs, nparse + 1)
            /\ specification' = SpecAfterParse(specification, objs)
            /\ parsed' = View(specification', heap', objs, parser'.request_response_params)
            /\ parsed0' = IF nparse = 0 THEN parsed' ELSE parsed0
            /\ fresh' = [heap |-> heap', objs |-> objs]

\* what every generator call does around its operation
CanCall == parser.status = "ok" /\ ncalls < MaxCalls

Called(op, rnd, kw) ==
    /\ ncalls' = ncalls + 1
    /\ call' = [op |-> op, rnd |-> rnd, kw |-> kw]
    /\ UNCHANGED <<parser, nparse, parsed0, parsed, fresh>>

\* kwargs of a call: headers = the caller's mapping, or no headers
KwArgs == {"caller", "none"}

\* the operations that only carry kwargs are called with the caller's headers
Carried == {"caller"}

UnsupportedHttpMethods ==
    /\ CanCall
    /\ \E rnd \in Draws(parser, heap, FALSE, FALSE), kw \in Carried :
        /\ Called("check_unsupported_http_methods", rnd, kw)
        /\ tasks' = CheckUnsupportedHttpMethods(parser, heap, rnd, kw)
        /\ UNCHANGED <<specification, heap, objs, headers>>

SqliFuzzParams ==
    /\ CanCall
    /\ \E rnd \in Draws(parser, heap, FALSE, FALSE), kw \in Carried :
        /\ Called("sqli_fuzz_params_test", rnd, kw)
        /\ tasks' = SqliFuzzParamsTest(parser, heap, rnd, kw)
        /\ UNCHANGED <<specification, heap, objs, headers>>

SqliInUriPath ==
    /\ CanCall
    /\ \E rnd \in Draws(parser, heap, FALSE, TRUE), kw \in Carried :
        LET out == SqliInUriPathFuzzTest(parser, heap, rnd, kw) IN
        /\ Called("sqli_in_uri_path_fuzz_test", rnd, kw)
        /\ tasks' = out.tasks
        /\ heap' = out.heap
        /\ UNCHANGED <<specification, objs, headers>>

BolaFuzzPath ==
    /\ CanCall
    /\ \E rnd \in Draws(parser, heap, FALSE, FALSE), kw \in Carried :
        /\ Called("bola_fuzz_path_test", rnd, kw)
        /\ tasks' = BolaFuzzPathTest(parser, heap, rnd, kw)
        /\ UNCHANGED <<specification, heap, objs, headers>>

BolaFuzzTrailingSlashPath ==
    /\ CanCall
    /\ \E rnd \in Draws(parser, heap, TRUE, FALSE), kw \in Carried :
        /\ Called("bola_fuzz_trailing_slash_path_test", rnd, kw)
        /\ tasks' = BolaFuzzTrailingSlashPathTest(parser, heap, rnd, kw)
        /\ UNCHANGED <<specification, heap, objs, headers>>

BoplaFuzz ==
    /\ CanCall
    /\ \E rnd \in Draws(parser, heap, TRUE, FALSE), kw \in Carried :
        LET out == BoplaFuzzTest(specification, parser, heap, objs, rnd, kw) IN
        /\ Called("bopla_fuzz_test", rnd, kw)
        /\ tasks' = out.tasks
        /\ objs' = out.objs
        /\ UNCHANGED <<specification, heap, headers>>

\* the three operations take no kwargs
OsCommandInjection ==
    /\ CanCall
    /\ \E rnd \in Draws(parser, heap, FALSE, FALSE) :
        /\ Called("os_command_injection_fuzz_params_test", rnd, "none")
        /\ tasks' = OsCommandInjectionFuzzParamsTest(parser, heap, rnd)
        /\ UNCHANGED <<specification, heap, objs, headers>>

XssHtmlInjection ==
    /\ CanCall
    /\ \E rnd \in Draws(parser, heap, FALSE, FALSE) :
        /\ Called("xss_html_injection_fuzz_params_test", rnd, "none")
        /\ tasks' = XssHtmlInjectionFuzzParamsTest(parser, heap, rnd)
        /\ UNCHANGED <<specification, heap, objs, headers>>

SstiFuzzParams ==
    /\ CanCall
    /\ \E rnd \in Draws(parser, heap, FALSE, FALSE) :
        /\ Called("ssti_fuzz_params_test", rnd, "none")
        /\ tasks' = SstiFuzzParamsTest(parser, heap, rnd)
        /\ UNCHANGED <<specification, heap, objs, headers>>

MissingAuthFuzz ==
    /\ CanCall
    /\ \E rnd \in Draws(parser, heap, FALSE, FALSE), kw \in KwArgs :
        /\ Called("missing_auth_fuzz_test", rnd, kw)
        /\ headers' = HeadersAfterPop(headers, kw)
        /\ tasks' = MissingAuthFuzzTest(parser, heap, rnd, kw)
        /\ UNCHANGED <<specification, heap, objs>>

Next ==
    \/ Construct
    \/ UnsupportedHttpMethods
    \/ SqliFuzzParams
    \/ SqliInUriPath
    \/ BolaFuzzPath
    \/ BolaFuzzTrailingSlashPath
    \/ BoplaFuzz
    \/ OsCommandInjection
    \/ XssHtmlInjection
    \/ SstiFuzzParams
    \/ MissingAuthFuzz

Spec == Init /\ [][Next]_vars

----------------------------------------------------------------------------
(* Reading the state *)

Records == parser.request_response_params

\* the tasks the operation op returns on the normalised spec p with the lists
\* h and the schema objects o, for the draws rnd
GenOut(op, spec, p, h, o, rnd, kw) ==
    CASE op = "check_unsupported_http_methods" -> CheckUnsupportedHttpMethods(p, h, rnd, kw)
      [] op = "sqli_fuzz_params_test" -> SqliFuzzParamsTest(p, h, rnd, kw)
      [] op = "sqli_in_uri_path_fuzz_test" -> SqliInUriPathFuzzTest(p, h, rnd, kw).tasks
      [] op = "bola_fuzz_path_test" -> BolaFuzzPathTest(p, h, rnd, kw)
      [] op = "bola_fuzz_trailing_slash_path_test" -> BolaFuzzTrailingSlashPathTest(p, h, rnd, kw)
      [] op = "bopla_fuzz_test" -> BoplaFuzzTest(spec, p, h, o, rnd, kw).tasks
      [] op = "os_command_injection_fuzz_params_test" -> OsCommandInjectionFuzzParamsTest(p, h, rnd)
      [] op = "xss_html_injection_fuzz_params_test" -> XssHtmlInjectionFuzzParamsTest(p, h, rnd)
      [] op = "ssti_fuzz_params_test" -> SstiFuzzParamsTest(p, h, rnd)
      [] op = "missing_auth_fuzz_test" -> MissingAuthFuzzTest(p, h, rnd, kw)
      [] OTHER -> <<>>

\* the draws the operation op can make
DrawsOf(op, p, h) ==
    Draws(p, h, op \in {"bola_fuzz_trailing_slash_path_test", "bopla_fuzz_test"},
          op = "sqli_in_uri_path_fuzz_test")

Names(params) == [n \in DOMAIN params |-> params[n].name]

\* the headers mapping a descriptor's kwargs carries; without one, no key
TaskHeaders(t) == IF t.kwargs = "caller" THEN headers ELSE {}

InjectionTests == {"SQLi Test", "OS Command Injection Test", "XSS/HTML Injection Test", "SSTI Test"}

----------------------------------------------------------------------------
(* Claims *)

\* C1: Unsupported HTTP Method Check: for every path template of the document
\* the methods of the Endpoint Records of the path and the methods of the
\* descriptors emitted for the path are disjoint, their union is exactly
\* {get, post, put, patch, delete, options}, and there is exactly one
\* descriptor per restricted method.
C1_VerbCompleteness ==
    call.op = "check_unsupported_http_methods" =>
        \A P \in {Records[n].path : n \in DOMAIN Records} :
            LET documented == {Records[n].http_method : n \in {m \in DOMAIN Records : Records[m].path = P}}
                emitted == {n \in DOMAIN tasks : Records[tasks[n].record].path = P}
                methods == {Lower(tasks[n].method) : n \in emitted}
            IN /\ documented \cap methods = {}
               /\ documented \cup methods = Range(HttpMethods)
               /\ Cardinality(emitted) = Cardinality(methods)

\* C2: running the normaliser twice on the same document tree yields
\* structurally equal Endpoint Record sequences.
C2_NormalizationIdempotent ==
    (parser.status = "ok" /\ nparse >= 2) => parsed = parsed0

\* C3: after any sequence of generator operations every Endpoint Record is
\* structurally equal to what the normaliser produced.
C3_RecordsReadOnly ==
    parser.status = "ok" => View(specification, heap, objs, Records) = parsed

\* the structure of an output: per descriptor its test_name, its method and
\* the names of its body, query and path parameters
Structure(ts) ==
    [n \in DOMAIN ts |->
        [test_name |-> ts[n].test_name, method |-> ts[n].method,
         body |-> Names(ts[n].body_params), query |-> Names(ts[n].query_params),
         path |-> Names(ts[n].path_params)]]

\* C4: the structure of an operation's output is the same whatever operations
\* were invoked on the spec before (it is the structure of its output on the
\* spec as normalised), and within one SQLi-in-URI-path invocation the
\* descriptors of one endpoint carry path_params with the same names.
C4_InvocationsIndependent ==
    call.op # "none" =>
        /\ Structure(tasks) =
              Structure(GenOut(call.op, specification, parser, fresh.heap, fresh.objs,
                               call.rnd, call.kw))
        /\ call.op = "sqli_in_uri_path_fuzz_test" =>
              \A m, n \in DOMAIN tasks :
                  tasks[m].record = tasks[n].record =>
                      Names(tasks[m].path_params) = Names(tasks[n].path_params)

\* C5: every descriptor of an injection generator has its payload as the
\* value of a string-typed body or query parameter, and every
\* SQLi-in-URI-path descriptor has its payload in the url.
C5_PayloadFidelity ==
    \A n \in DOMAIN tasks :
        LET t == tasks[n] IN
        /\ t.test_name \in InjectionTests =>
              \E q \in Range(t.body_params) \cup Range(t.query_params) :
                  q.type = "string" /\ q.value = t.malicious_payload.s
        /\ t.test_name = "SQLi Test in URI Path with Fuzzed Params" =>
              t.malicious_payload.s \in Range(t.url.path)

\* C6: no descriptor of the missing-auth generator carries a headers mapping
\* with the key Authorization or the key X-Api-Key.
C6_AuthStripped ==
    \A n \in DOMAIN tasks :
        tasks[n].test_name = "Missing Authentication Test with Fuzzed Params" =>
            TaskHeaders(tasks[n]) \cap AuthHeaders = {}

\* a missing-auth descriptor that carries the caller's mapping, which held
\* both keys when the call was made, now without them
C6_Witness ==
    \E n \in DOMAIN tasks :
        /\ tasks[n].test_name = "Missing Authentication Test with Fuzzed Params"
        /\ tasks[n].kwargs = "caller"
        /\ TaskHeaders(tasks[n]) = CallerHeaders \ AuthHeaders

\* C7: the mapping the caller passed to the missing-auth generator is
\* unchanged after the call, so the descriptors an operation emits afterwards
\* with that mapping still carry Authorization and X-Api-Key.
C7_CallerHeadersKept ==
    /\ call.op = "missing_auth_fuzz_test" => headers = CallerHeaders
    /\ \A n \in DOMAIN tasks :
          (tasks[n].kwargs = "caller"
             /\ tasks[n].test_name # "Missing Authentication Test with Fuzzed Params")
          => AuthHeaders \subseteq TaskHeaders(tasks[n])

\* the document subtree a `$ref` into components.schemas names
RefTarget(ref) ==
    IF Len(ref) = 3 /\ ref[1] = "components" /\ ref[2] = "schemas" /\ ref[3] \in ComponentNames
    THEN ref[3] ELSE "{}"

\* what a schema entry of the document should be carried as
Resolved(id) ==
    IF id \in DOMAIN objs /\ objs[id].ref # <<>> THEN RefTarget(objs[id].ref) ELSE id

HoldsRef(id) == id \in DOMAIN objs /\ objs[id].ref # <<>>

\* C8: every parameter whose schema holds a `$ref` of at most 3 segments
\* (operation-level parameters, synthesised body parameters and response
\* entries alike) carries the document subtree at that path in its Endpoint
\* Record; a deeper `$ref` gives the empty schema.
C8_ReferenceResolution ==
    parser.status = "ok" =>
        \A n \in DOMAIN Records :
            LET r == Records[n]
                op == specification.paths[r.response_params[1]].ops[r.response_params[2]]
            IN /\ \A q \in Range(heap[r.request_params]) : ~HoldsRef(q.schema)
               /\ \A k \in DOMAIN r.body_params :
                     r.body_params[k].schema = Resolved(op.requestBody[k].obj)
               /\ \A k \in DOMAIN op.responses :
                     LET rs == op.responses[k] IN
                     /\ (rs.content # <<>> /\ rs.content[Len(rs.content)].key = "schema")
                           => rs.schema = Resolved(rs.content[Len(rs.content)].obj)
                     /\ (rs.content = <<>> /\ rs.ref # <<>>) => rs.schema = RefTarget(rs.ref)

\* the multiset of (test_name, method, raw path) of an output
Triple(t) == <<t.test_name, t.method, Records[t.record].path>>

Triples(ts) ==
    [x \in {Triple(ts[n]) : n \in DOMAIN ts} |->
        Cardinality({n \in DOMAIN ts : Triple(ts[n]) = x})]

\* C9: two runs of an operation on the same normalised spec that differ only
\* in the random draws give the same number of descriptors and the same
\* multiset of (test_name, method, raw path).
C9_StructuralDeterminism ==
    [][(ncalls' = ncalls + 1) =>
          \A rnd \in DrawsOf(call'.op, parser, heap) :
              LET other == GenOut(call'.op, specification, parser, heap, objs, rnd, call'.kw)
              IN Len(other) = Len(tasks') /\ Triples(other) = Triples(tasks')]_vars

\* C10: the url of a descriptor contains no placeholder of a parameter that
\* is in the descriptor's path_params, and a placeholder of the raw path
\* without such a parameter stays in the url.
C10_PathSubstitutionComplete ==
    \A n \in DOMAIN tasks :
        LET t == tasks[n]
            named == {Brace(q.name) : q \in Range(t.path_params)}
        IN /\ named \cap Range(t.url.path) = {}
           /\ (Range(Records[t.record].path) \cap Placeholders) \ named \subseteq Range(t.url.path)

\* a descriptor whose raw path has the placeholder of one of its path
\* parameters, replaced in the url by the value
C10_Witness ==
    \E n \in DOMAIN tasks :
        /\ "{id}" \in Range(Records[tasks[n].record].path)
        /\ \E q \in Range(tasks[n].path_params) : q.name = "id" /\ q.value \in Range(tasks[n].url.path)
        /\ "{id}" \notin Range(tasks[n].url.path)

\* the keys every descriptor is to have
RequiredKeys ==
    {"test_name", "url", "endpoint", "method", "body_params", "query_params", "path_params",
     "malicious_payload", "vuln_details", "response_filter"}

\* C11: every descriptor of every generator operation has the required keys
\* and a response_filter that is STATUS_CODE_FILTER or BODY_REGEX_FILTER; with
\* STATUS_CODE_FILTER it has success_codes and no response_match_regex, with
\* BODY_REGEX_FILTER it has response_match_regex and no success_codes.
C11_FieldPresence ==
    \A n \in DOMAIN tasks :
        LET t == tasks[n] IN
        /\ RequiredKeys \subseteq t.keys
        /\ t.response_filter \in {"STATUS_CODE_FILTER", "BODY_REGEX_FILTER"}
        /\ t.response_filter = "STATUS_CODE_FILTER" =>
              "success_codes" \in t.keys /\ "response_match_regex" \notin t.keys
        /\ t.response_filter = "BODY_REGEX_FILTER" =>
              "response_match_regex" \in t.keys /\ "success_codes" \notin t.keys

\* an output with a descriptor of a body-regex generator, made by updating the
\* fuzzed dict in place over more than one payload
C11_Witness ==
    /\ Len(tasks) >= 2
    /\ tasks[Len(tasks)].response_filter = "BODY_REGEX_FILTER"
    /\ tasks[Len(tasks)].response_match_regex # "none"
    /\ "security" \in tasks[Len(tasks)].keys

\* C12: no two descriptors an operation returns refer to the same mutable
\* object (a parameter list or the kwargs mapping): each is a deep copy, so a
\* change made through one is seen through no other.
C12_DeepCopied ==
    \A m, n \in DOMAIN tasks : m # n => tasks[m].shared \cap tasks[n].shared = {}

\* C13: the Unsupported HTTP Method Check emits no descriptor whose method is
\* a key of the document's path item of the descriptor's path (patch and the
\* other keys the normaliser passes over included).
C13_NoDeclaredVerb ==
    call.op = "check_unsupported_http_methods" =>
        \A n \in DOMAIN tasks :
            LET item == specification.paths[Records[tasks[n].record].response_params[1]]
            IN \A j \in DOMAIN item.ops : item.ops[j].key # Lower(tasks[n].method)

\* no response object of the document has been given a `schema` attribute
ResponsesUntouched ==
    \A i \in DOMAIN specification.paths : \A j \in DOMAIN specification.paths[i].ops :
        \A k \in DOMAIN specification.paths[i].ops[j].responses :
            specification.paths[i].ops[j].responses[k].schema = "none"

\* C14: constructing the normaliser on a document without servers fails with
\* InvalidOpenAPIv3File, and nothing of a normalised spec is there afterwards:
\* no host, no base_url, no Endpoint Record, and the document is as it was.
C14_NoServersFails ==
    (nparse > 0 /\ specification.servers = <<>>) =>
        /\ parser.status = "InvalidOpenAPIv3File"
        /\ parser.hosts = <<>>
        /\ parser.base_url = "none"
        /\ parser.request_response_params = <<>>
        /\ ResponsesUntouched
        /\ heap = fresh.heap

\* a construction was attempted on a document without servers and failed
C14_Witness ==
    /\ nparse > 0
    /\ specification.servers = <<>>
    /\ specification.paths # <<>>
    /\ parser.status = "InvalidOpenAPIv3File"

\* C15: when the first server url gives no host, the construction fails with
\* the host error (a ValueError, unlike the InvalidOpenAPIv3File of a document
\* without servers), and there is no base_url and no Endpoint Record.
C15_NoHostFails ==
    (nparse > 0 /\ specification.servers # <<>> /\ specification.servers[1].host = "") =>
        /\ parser.status = "ValueError"
        /\ parser.status # "InvalidOpenAPIv3File"
        /\ parser.base_url = "none"
        /\ parser.request_response_params = <<>>

\* C16: after a construction the host, the port and the base path are those
\* of the first server, and http_scheme, also the scheme of base_url, is
\* https when some server url uses https and http otherwise.
C16_FirstServerAnyHttps ==
    parser.status = "ok" =>
        LET servers == specification.servers
            scheme == IF \E i \in DOMAIN servers : servers[i].https THEN "https" ELSE "http"
        IN /\ parser.host = [host |-> servers[1].host, port |-> servers[1].port]
           /\ parser.api_base_path = servers[1].basepath
           /\ parser.http_scheme = scheme
           /\ parser.base_url.scheme = scheme

ValidIn == {"body", "query", "path", "header", "formData", "cookie"}

\* C17: every record in request_params, path_params and body_params of every
\* Endpoint Record has a name and an `in` that is one of body, query, path,
\* header, formData, cookie.
C17_ParameterRecordInvariant ==
    parser.status = "ok" =>
        \A n \in DOMAIN Records :
            \A q \in Range(heap[Records[n].request_params]) \cup Range(heap[Records[n].path_params])
                       \cup Range(Records[n].body_params) :
                q.name # "none" /\ q.in \in ValidIn

\* the keys of a path item that name an operation the normaliser is to keep
KeptVerbs == {"get", "put", "post", "delete", "options"}

\* C18: there is exactly one Endpoint Record per (path, key) of the document
\* with key in get, put, post, delete, options, in document order, and none for
\* another key; its body_params has one record per media type of
\* requestBody.content, with in = body and the media type as name, and these
\* records end its request_params, after the declared parameters.
C18_OneRecordPerOperation ==
    parser.status = "ok" =>
        LET paths == specification.paths
            kept == {ij \in (DOMAIN paths) \X (1..MaxOps) :
                        ij[2] \in DOMAIN paths[ij[1]].ops /\ paths[ij[1]].ops[ij[2]].key \in KeptVerbs}
            At(n) == Records[n].response_params
        IN /\ {At(n) : n \in DOMAIN Records} = kept
           /\ Len(Records) = Cardinality(kept)
           /\ \A m, n \in DOMAIN Records :
                 m < n => \/ At(m)[1] < At(n)[1]
                          \/ At(m)[1] = At(n)[1] /\ At(m)[2] < At(n)[2]
           /\ \A n \in DOMAIN Records :
                 LET r == Records[n]
                     op == paths[At(n)[1]].ops[At(n)[2]]
                     list == heap[r.request_params]
                 IN /\ r.http_method = op.key
                    /\ r.path = paths[At(n)[1]].path
                    /\ Len(r.body_params) = Len(op.requestBody)
                    /\ \A k \in DOMAIN r.body_params :
                          r.body_params[k].in = "body" /\ r.body_params[k].name = op.requestBody[k].mt
                    /\ Len(list) >= Len(r.body_params)
                    /\ SubSeq(list, Len(list) - Len(r.body_params) + 1, Len(list)) = r.body_params

\* a normalised document with a key that is passed over and with an
\* operation that has a request body and declared parameters
C18_Witness ==
    /\ parser.status = "ok"
    /\ \E i \in DOMAIN specification.paths : \E j \in DOMAIN specification.paths[i].ops :
          specification.paths[i].ops[j].key \in {"head", "patch"}
    /\ \E n \in DOMAIN Records :
          /\ Records[n].body_params # <<>>
          /\ Len(heap[Records[n].request_params]) > Len(Records[n].body_params)

\* the catalog of an OS command, XSS or SSTI operation
CatalogOf(op) ==
    CASE op = "os_command_injection_fuzz_params_test" -> OsCommandPayloads
      [] op = "xss_html_injection_fuzz_params_test" -> XssPayloads
      [] op = "ssti_fuzz_params_test" -> SstiPayloads
      [] OTHER -> <<>>

\* the Endpoint Record has a string-typed body or query parameter
HasStringParam(r) ==
    \E q \in Range(heap[r.request_params]) : q.in \in {"body", "query"} /\ q.type = "string"

\* C19: the OS command, XSS and SSTI generators emit one descriptor per
\* catalog pair for every endpoint with a string-typed body or query parameter
\* and none for any other endpoint; a descriptor has BODY_REGEX_FILTER, the
\* pair's payload as malicious_payload and the pair's regex as
\* response_match_regex.
C19_InjectionCounts ==
    CatalogOf(call.op) # <<>> =>
        LET catalog == CatalogOf(call.op)
            Of(n) == {i \in DOMAIN tasks : tasks[i].record = n}
        IN \A n \in DOMAIN Records :
              IF HasStringParam(Records[n])
              THEN /\ Cardinality(Of(n)) = Len(catalog)
                   /\ \A k \in DOMAIN catalog :
                         \E i \in Of(n) :
                            /\ tasks[i].response_filter = "BODY_REGEX_FILTER"
                            /\ tasks[i].malicious_payload = Scalar(catalog[k].request_payload)
                            /\ tasks[i].response_match_regex = catalog[k].response_match_regex
              ELSE Of(n) = {}

\* the names of the path parameters the document declares for an Endpoint
\* Record, at the path item or at the operation
DeclaredPathNames(r) ==
    {q.name : q \in Range(fresh.heap[r.path_params])}
        \cup {q.name : q \in {x \in Range(fresh.heap[r.request_params]) : x.in = "path"}}

\* the raw path with the payload in place of the placeholders of names
Injected(r, names, payload) ==
    [k \in DOMAIN r.path |->
        IF r.path[k] \in {Brace(nm) : nm \in names} THEN payload ELSE r.path[k]]

\* C20: the SQLi-in-URI-path generator emits five descriptors, one per payload
\* of the SQLi catalog, for every endpoint whose raw path contains '/{' and
\* none for another endpoint; the url of a descriptor is the raw path under the
\* base path with the payload in place of every placeholder that has a declared
\* path parameter, and its body and query parameters have their fuzzed values.
C20_PathSqliCounts ==
    call.op = "sqli_in_uri_path_fuzz_test" =>
        /\ \A n \in DOMAIN Records :
              LET of == {i \in DOMAIN tasks : tasks[i].record = n}
              IN IF HasParamInPath(Records[n].path)
                 THEN /\ Cardinality(of) = 5
                      /\ \A k \in DOMAIN BasicSqliPayloads :
                            \E i \in of : tasks[i].malicious_payload = Scalar(BasicSqliPayloads[k])
                 ELSE of = {}
        /\ \A i \in DOMAIN tasks :
              LET t == tasks[i]
                  r == Records[t.record]
              IN /\ \E others \in SUBSET {q.name : q \in Range(t.path_params)} :
                       t.url.path = JoinUriPath(parser.api_base_path,
                                       Injected(r, DeclaredPathNames(r) \cup others, t.malicious_payload.s))
                 /\ \A q \in Range(t.body_params) \cup Range(t.query_params) :
                       q.value = FuzzValue(call.rnd[t.record][1])

\* a path-SQLi descriptor with the payload in its url and with a query and a
\* body parameter
C20_Witness ==
    /\ call.op = "sqli_in_uri_path_fuzz_test"
    /\ \E i \in DOMAIN tasks :
          /\ tasks[i].malicious_payload.s \in Range(tasks[i].url.path)
          /\ "{id}" \in Range(Records[tasks[i].record].path)
          /\ tasks[i].query_params # <<>>
          /\ tasks[i].body_params # <<>>

\* the (status code, property name) pairs of the responses of an Endpoint
\* Record, in the order of the responses and of the properties of each schema
ResponsePairs(r) ==
    LET rs == specification.paths[r.response_params[1]].ops[r.response_params[2]].responses
    IN Flatten([k \in DOMAIN rs |->
          IF rs[k].schema \in DOMAIN objs
          THEN [x \in DOMAIN objs[rs[k].schema].properties |->
                   <<rs[k].status, objs[rs[k].schema].properties[x].key>>]
          ELSE <<>>])

\* C21: BOPLA emits one descriptor for every endpoint with a body or query
\* parameter and none for another endpoint; its body_params are the endpoint's
\* fuzzed body parameters followed by one record per (status code, property of
\* that status's response schema) with the property's name, in = body and that
\* status_code, and its malicious_payload is that suffix.
C21_BoplaDescriptors ==
    call.op = "bopla_fuzz_test" =>
        \A n \in DOMAIN Records :
            LET r == Records[n]
                of == {i \in DOMAIN tasks : tasks[i].record = n}
                body == SelectSeq(FillParams(heap[r.request_params], call.rnd[n][1]), InBody)
                pairs == ResponsePairs(r)
            IN IF \E q \in Range(heap[r.request_params]) : q.in \in {"body", "query"}
               THEN /\ Cardinality(of) = 1
                    /\ \A i \in of :
                          LET t == tasks[i]
                              suffix == SubSeq(t.body_params, Len(body) + 1, Len(t.body_params))
                          IN /\ Len(t.body_params) = Len(body) + Len(pairs)
                             /\ SubSeq(t.body_params, 1, Len(body)) = body
                             /\ \A k \in DOMAIN pairs :
                                   /\ suffix[k].name = pairs[k][2]
                                   /\ suffix[k].in = "body"
                                   /\ suffix[k].status_code = pairs[k][1]
                             /\ t.malicious_payload = Listed(suffix)
               ELSE of = {}

\* a BOPLA descriptor with a request body parameter followed by a record made
\* from a response property
C21_Witness ==
    /\ call.op = "bopla_fuzz_test"
    /\ \E i \in DOMAIN tasks :
          /\ tasks[i].malicious_payload.l # <<>>
          /\ Len(tasks[i].body_params) > Len(tasks[i].malicious_payload.l)
          /\ tasks[i].body_params[Len(tasks[i].body_params)].status_code = "200"

\* the Endpoint Record has a placeholder in its raw path with a path
\* parameter of that name declared at the path item or at the operation
HasPathParameter(r) ==
    \E k \in DOMAIN r.path :
        /\ r.path[k] \in Placeholders
        /\ \E q \in Range(fresh.heap[r.path_params]) \cup Range(fresh.heap[r.request_params]) :
              q.in = "path" /\ Brace(q.name) = r.path[k]

\* C22: the BOLA-in-path generator emits one descriptor, with the documented
\* verb, for every endpoint that has a path parameter, and none for an
\* endpoint without path parameters.
C22_BolaPathCoverage ==
    call.op = "bola_fuzz_path_test" =>
        \A n \in DOMAIN Records :
            LET of == {i \in DOMAIN tasks : tasks[i].record = n}
            IN IF HasPathParameter(Records[n])
               THEN /\ Cardinality(of) = 1
                    /\ \A i \in of : tasks[i].method = Upper(Records[n].http_method)
               ELSE of = {}

\* C23: the missing-auth generator emits one descriptor, with the endpoint's
\* verb and success_codes [200, 201, 301], for every Endpoint Record whose
\* security is non-empty and not [{}], and none for another Endpoint Record.
C23_MissingAuthCoverage ==
    call.op = "missing_auth_fuzz_test" =>
        \A n \in DOMAIN Records :
            LET of == {i \in DOMAIN tasks : tasks[i].record = n}
            IN IF Records[n].security # <<>> /\ Records[n].security # <<"{}">>
               THEN /\ Cardinality(of) = 1
                    /\ \A i \in of :
                          /\ tasks[i].method = Upper(Records[n].http_method)
                          /\ tasks[i].success_codes = <<200, 201, 301>>
               ELSE of = {}

\* a missing-auth call on a spec with a secured endpoint, which has its
\* descriptor, and an endpoint with the pass-through security, which has none
C23_Witness ==
    /\ call.op = "missing_auth_fuzz_test"
    /\ Len(tasks) = 1
    /\ Records[tasks[1].record].security = <<"bearerAuth">>
    /\ \E n \in DOMAIN Records : Records[n].security = <<"{}">>

\* C24: the SQLi body/query generator emits one descriptor per payload and
\* Endpoint Record; in each, every string-typed body or query record has the
\* descriptor's own payload as value and every other record its fuzzed
\* value; path_params and url are the same in the descriptors of one endpoint
\* and hold no payload.
C24_SqliOwnPayload ==
    call.op = "sqli_fuzz_params_test" =>
        /\ Len(tasks) = 5 * Len(Records)
        /\ \A n \in DOMAIN Records : \A k \in DOMAIN BasicSqliPayloads :
              Cardinality({i \in DOMAIN tasks :
                              /\ tasks[i].record = n
                              /\ tasks[i].malicious_payload = Scalar(BasicSqliPayloads[k])}) = 1
        /\ \A i \in DOMAIN tasks :
              LET t == tasks[i] IN
              /\ \A q \in Range(t.body_params) \cup Range(t.query_params) :
                    IF q.type = "string"
                    THEN q.value = t.malicious_payload.s
                    ELSE q.value = FuzzValue(call.rnd[t.record][1])
              /\ \A j \in DOMAIN tasks :
                    tasks[j].record = t.record =>
                        tasks[j].path_params = t.path_params /\ tasks[j].url = t.url
              /\ \A k \in DOMAIN BasicSqliPayloads :
                    /\ BasicSqliPayloads[k] \notin Range(t.url.path)
                    /\ \A q \in Range(t.path_params) : q.value # BasicSqliPayloads[k]

\* the descriptor of the last payload for an endpoint with a string-typed
\* query parameter, a body parameter that is not string-typed and a path
\* parameter
C24_Witness ==
    /\ call.op = "sqli_fuzz_params_test"
    /\ \E i \in DOMAIN tasks :
          /\ tasks[i].malicious_payload = Scalar(BasicSqliPayloads[5])
          /\ \E q \in Range(tasks[i].query_params) : q.type = "string" /\ q.value = BasicSqliPayloads[5]
          /\ \E q \in Range(tasks[i].body_params) : q.type # "string" /\ q.value = FuzzValue(call.rnd[tasks[i].record][1])
          /\ tasks[i].path_params # <<>>

\* the index of the first record of params whose name has the placeholder ph
FirstNamed(params, ph) ==
    CHOOSE k \in DOMAIN params :
        /\ Brace(params[k].name) = ph
        /\ \A j \in 1..(k - 1) : Brace(params[j].name) # ph

\* C25: in every descriptor, for every placeholder of the raw path that has a
\* record of its name in path_params, the text in the url at the place of the
\* placeholder is the value of the first such record (for a path-SQLi
\* descriptor, the payload).
C25_UrlAgreesWithPathParams ==
    \A i \in DOMAIN tasks :
        LET t == tasks[i]
            path == Records[t.record].path
        IN \A k \in DOMAIN path :
              (path[k] \in Placeholders /\ \E q \in Range(t.path_params) : Brace(q.name) = path[k])
              => t.url.path[Len(parser.api_base_path) + k] = t.path_params[FirstNamed(t.path_params, path[k])].value

\* C26: in every descriptor every record of body_params has in = body, every
\* record of query_params has in = query, every record of path_params has
\* in = path, and no two records of path_params have the same name.
C26_PositionPartition ==
    \A i \in DOMAIN tasks :
        LET t == tasks[i] IN
        /\ \A q \in Range(t.body_params) : q.in = "body"
        /\ \A q \in Range(t.query_params) : q.in = "query"
        /\ \A q \in Range(t.path_params) : q.in = "path"
        /\ \A j, k \in DOMAIN t.path_params :
              j # k => t.path_params[j].name # t.path_params[k].name

====
